---------------------------- MODULE Spec2Model ----------------------------
(***************************************************************************)
(* json_size: sizeof_val, the recursive size estimate of a                 *)
(* serde_json::Value (src/src/lib.rs), and the packaged copy of it         *)
(* (src/target/package/json_size-0.1.0/src/lib.rs).                        *)
(*                                                                         *)
(* The model is the 32-bit build of the crate (size_of::<usize>() = 4).    *)
(* A usize is kept as a pair <<hi, lo>> of 16-bit limbs, hi * 2^16 + lo,   *)
(* so that additions carry their width: the hi limb of an exact sum        *)
(* reaches 2^16 exactly when the usize addition overflows.  With           *)
(* overflow checks on (the dev and test profiles) such an addition         *)
(* panics; with them off (the release profile) it wraps.                   *)
(***************************************************************************)
EXTENDS Integers, Sequences, FiniteSets, TLC

VARIABLES
    tree,        \* the caller's serde_json::Value
    arg,         \* the tree as it was when the running call was made
    pc,          \* "idle" | "running" | "done" | "panicked"
    stack,       \* the active sizeof_val calls, the root's first
    outcome,     \* what the last call returned
    rets,        \* path -> what the call on that node returned (this call)
    visits,      \* the paths of the nodes sizeof_val was called on, in order
    maxActive,   \* the most calls active at once during this call
    prev,        \* the outcome of the call before this one, and how the tree changed since
    fault,       \* <<path>> of the call whose addition panicked, else <<>>
    overflowChecks, \* the build: TRUE panics on overflow, FALSE wraps
    copy         \* which copy of sizeof_val runs: "src" | "package"

vars == <<tree, arg, pc, stack, outcome, rets, visits, maxActive, prev,
          fault, overflowChecks, copy>>

-----------------------------------------------------------------------------
(* Bounds of the model *)

\* The most nodes (values) a tree holds.
MaxNodes == 3

-----------------------------------------------------------------------------
(* usize arithmetic *)

\* size_of::<usize>() of the modelled target.
USIZE_BYTES == 4

\* One limb holds half of a usize's bits.
Limb == 2 ^ (4 * USIZE_BYTES)

\* The natural number n (n < 2^31) as limbs.
U(n) == <<n \div Limb, n % Limb>>

\* Exact sum of two naturals kept as limbs: the hi limb is not reduced.
NatAdd(a, b) ==
    LET s == a[2] + b[2]
    IN  <<a[1] + b[1] + (s \div Limb), s % Limb>>

\* k * a, exact, for a small factor k.
NatMul(k, a) ==
    LET p == k * a[2]
    IN  <<k * a[1] + (p \div Limb), p % Limb>>

\* a <= b on naturals kept as limbs.
NatLeq(a, b) == a[1] < b[1] \/ (a[1] = b[1] /\ a[2] <= b[2])

\* Whether a natural fits a usize.
FitsUsize(a) == a[1] < Limb

\* The usize a natural wraps to (mod 2^32).
Wrap(a) == <<a[1] % Limb, a[2]>>

\* isize::MAX, the largest capacity a String can hold.
ISIZE_MAX == <<(Limb \div 2) - 1, Limb - 1>>

\* The result of a usize computation: a value, or a panic.
Ok(a) == [panic |-> FALSE, val |-> a]
Panic == [panic |-> TRUE, val |-> <<0, 0>>]

\* usize `x + y` where x and y are results: a panic on either side stays
\* one; an overflow panics under overflow checks and wraps without them.
UAdd(x, y, checks) ==
    IF x.panic \/ y.panic THEN Panic
    ELSE LET s == NatAdd(x.val, y.val)
         IN  IF FitsUsize(s) THEN Ok(s)
             ELSE IF checks THEN Panic ELSE Ok(Wrap(s))

-----------------------------------------------------------------------------
(* Program constants *)

\* size_of::<String>(): pointer, capacity, length.
STRING_OVERHEAD == 12

MAP_ENTRY_OVERHEAD == USIZE_BYTES * 3

\* size_of::<Value>(), the envelope every node is charged.
ENVELOPE == 16


-----------------------------------------------------------------------------
(* serde_json::Value *)

\* Every value is one record; the fields a kind does not use keep a fixed
\* filler.  A String holds its length and its allocated capacity; an
\* Object holds its keys (Strings, sorted as the BTreeMap keeps them) beside
\* its values.
Node(kind, b, n, len, cap, keys, items) ==
    [kind |-> kind, b |-> b, n |-> n, len |-> len, cap |-> cap,
     keys |-> keys, items |-> items]

MkNull == Node("Null", FALSE, 0, 0, U(0), <<>>, <<>>)
MkBool(b) == Node("Bool", b, 0, 0, U(0), <<>>, <<>>)
MkNumber(n) == Node("Number", FALSE, n, 0, U(0), <<>>, <<>>)
MkString(len, cap) == Node("String", FALSE, 0, len, cap, <<>>, <<>>)
MkArray(items) == Node("Array", FALSE, 0, 0, U(0), <<>>, items)
MkObject(keys, items) == Node("Object", FALSE, 0, 0, U(0), keys, items)

\* A key of an Object: a String, named so that keys stay distinct.
MkKey(name, cap) == [name |-> name, cap |-> cap]

IsContainer(v) == v.kind \in {"Array", "Object"}

\* Capacities the model draws from: exact fits, and two grown buffers
\* near isize::MAX, the largest a String may hold.
BigCap == <<(Limb \div 2) - 1, Limb - 64>>

StringShapes ==
    { MkString(0, U(0)), MkString(3, U(3)),
      MkString(3, BigCap), MkString(3, ISIZE_MAX) }

KeyNames == {"a", "b"}

KeyCaps == { U(1), ISIZE_MAX }

KeyOrder(name) == IF name = "a" THEN 1 ELSE 2

\* The values of one node: every leaf, the empty array, the empty object.
Singles ==
    {MkNull, MkBool(TRUE), MkBool(FALSE), MkNumber(0), MkNumber(42)}
        \cup StringShapes \cup {MkArray(<<>>), MkObject(<<>>, <<>>)}

RECURSIVE NodeCount(_)
NodeCount(v) ==
    LET RECURSIVE Below(_)
        Below(i) == IF i = 0 THEN 0 ELSE NodeCount(v.items[i]) + Below(i - 1)
    IN  1 + Below(Len(v.items))

\* The value at a path (a sequence of child indices) below v.
RECURSIVE At(_, _)
At(v, path) ==
    IF path = <<>> THEN v ELSE At(v.items[Head(path)], Tail(path))

\* v with the value at a path replaced.
RECURSIVE Replace(_, _, _)
Replace(v, path, new) ==
    IF path = <<>> THEN new
    ELSE [v EXCEPT !.items[Head(path)] = Replace(@, Tail(path), new)]

\* The paths of all nodes of v, the root's being <<>>.
RECURSIVE Paths(_)
Paths(v) ==
    {<<>>} \cup UNION { { <<i>> \o p : p \in Paths(v.items[i]) } :
                        i \in 1..Len(v.items) }

\* Nesting depth: 1 for a leaf or an empty container.
RECURSIVE Depth(_)
Depth(v) ==
    LET RECURSIVE MaxBelow(_)
        MaxBelow(i) ==
            IF i = 0 THEN 0
            ELSE LET d == Depth(v.items[i])
                     m == MaxBelow(i - 1)
                 IN  IF d > m THEN d ELSE m
    IN  1 + MaxBelow(Len(v.items))

-----------------------------------------------------------------------------
(* sizeof_val *)

\* A leaf charged the eight bytes of its number besides the envelope.
LeafPayloadMut == Ok(U(8))

\* The match arms of Null, Bool and Number: no payload.
LeafPayload == Ok(U(0))

\* A String arm that reads s.len() where the code reads s.capacity().
StringPayloadMut(s, c, checks) ==
    UAdd(Ok(U(STRING_OVERHEAD)), Ok(U(s.len)), checks)

\* The String arm: STRING_OVERHEAD + s.capacity() in src/src/lib.rs, and
\* s.capacity() alone in the packaged copy.
StringPayload(s, c, checks) ==
    IF c = "src"
    THEN UAdd(Ok(U(STRING_OVERHEAD)), Ok(s.cap), checks)
    ELSE Ok(s.cap)

\* STRING_OVERHEAD + k.capacity(), the operands of an entry's cost that
\* are evaluated before the call on the entry's value.
KeyCost(k, checks) == UAdd(Ok(U(STRING_OVERHEAD)), Ok(k.cap), checks)

\* (STRING_OVERHEAD + k.capacity()) + sizeof_val(v) + MAP_ENTRY_OVERHEAD.
EntryCost(pre, r, checks) ==
    UAdd(UAdd(pre, r, checks), Ok(U(MAP_ENTRY_OVERHEAD)), checks)

\* What the iterator's sum adds for one child that returned r.
Term(parentKind, pre, r, checks) ==
    IF parentKind = "Array" THEN r ELSE EntryCost(pre, r, checks)

\* The value of the match expression for node v, acc being the sum over
\* its children.
Payload(v, acc, c, checks) ==
    CASE v.kind \in {"Null", "Bool", "Number"} -> LeafPayload
      [] v.kind = "String" -> StringPayload(v, c, checks)
      [] OTHER -> acc

\* size_of::<Value>() + match v { ... }
WithEnvelope(payload, checks) == UAdd(Ok(U(ENVELOPE)), payload, checks)

\* The function as a whole: what sizeof_val(&v) of copy c evaluates to in
\* a build with or without overflow checks.
RECURSIVE sizeof_val(_, _, _)
sizeof_val(v, c, checks) ==
    LET RECURSIVE Sum(_)
        Sum(n) ==
            IF n = 0 THEN Ok(U(0))
            ELSE UAdd(Sum(n - 1),
                      Term(v.kind,
                           IF v.kind = "Object" THEN KeyCost(v.keys[n], checks)
                                                ELSE Ok(U(0)),
                           sizeof_val(v.items[n], c, checks),
                           checks),
                      checks)
    IN  WithEnvelope(Payload(v, Sum(Len(v.items)), c, checks), checks)

\* A call whose sum starts from what the last call left behind.
FrameMut(path) == [path |-> path, i |-> 1, acc |-> outcome, pre |-> Ok(U(0))]

\* One active call: the node it is on, the child the iterator is at, the
\* sum so far, and the evaluated key cost of the entry being summed.
Frame(path) == [path |-> path, i |-> 1, acc |-> Ok(U(0)), pre |-> Ok(U(0))]

NoPrev == [rel |-> "none", out |-> Ok(U(0)), copy |-> "src"]

EmptyRets == [p \in {} |-> U(0)]

Top == stack[Len(stack)]

Init ==
    /\ tree \in Singles
    /\ arg = tree
    /\ pc = "idle"
    /\ stack = <<>>
    /\ outcome = Ok(U(0))
    /\ rets = EmptyRets
    /\ visits = <<>>
    /\ maxActive = 0
    /\ prev = NoPrev
    /\ fault = <<>>
    /\ overflowChecks \in BOOLEAN
    /\ copy = "src"

\* The caller calls sizeof_val(&tree) of copy c.  A call that follows a
\* finished call on the unchanged tree remembers what that call returned.
Call(c) ==
    /\ pc \in {"idle", "done"}
    /\ pc' = "running"
    /\ copy' = c
    /\ arg' = tree
    /\ stack' = <<Frame(<<>>)>>
    /\ visits' = <<<<>>>>
    /\ rets' = EmptyRets
    /\ maxActive' = 1
    /\ prev' = IF pc = "done"
               THEN [rel |-> "same", out |-> outcome, copy |-> copy]
               ELSE prev
    /\ UNCHANGED <<tree, outcome, fault, overflowChecks>>

CallSrc == Call("src")

CallPackage == Call("package")

\* The panic of an overflowing addition in the call on the node at path
\* unwinds every active call.
Unwind(path) ==
    /\ pc' = "panicked"
    /\ stack' = <<>>
    /\ outcome' = Panic
    /\ fault' = <<path>>

\* The iterator of an Array or Object yields its next child and map calls
\* sizeof_val on it; for an Object, STRING_OVERHEAD + k.capacity() is
\* evaluated first.
Descend ==
    /\ pc = "running"
    /\ LET top == Top
           v == At(tree, top.path)
       IN  /\ IsContainer(v)
           /\ top.i <= Len(v.items)
           /\ LET pre == IF v.kind = "Object"
                         THEN KeyCost(v.keys[top.i], overflowChecks)
                         ELSE Ok(U(0))
                  child == top.path \o <<top.i>>
              IN  IF pre.panic
                  THEN /\ Unwind(top.path)
                       /\ UNCHANGED <<visits, maxActive>>
                  ELSE /\ stack' = Append([stack EXCEPT ![Len(stack)].pre = pre],
                                          Frame(child))
                       /\ visits' = Append(visits, child)
                       /\ maxActive' = IF Len(stack) + 1 > maxActive
                                       THEN Len(stack) + 1 ELSE maxActive
                       /\ UNCHANGED <<pc, outcome, fault>>
    /\ UNCHANGED <<tree, arg, rets, prev, overflowChecks, copy>>

\* The call on top has its payload (a leaf, or a container whose iterator
\* is exhausted): it adds the envelope and returns, and the caller's sum
\* takes the result in.
Return ==
    /\ pc = "running"
    /\ LET top == Top
           v == At(tree, top.path)
           r == WithEnvelope(Payload(v, top.acc, copy, overflowChecks),
                             overflowChecks)
       IN  /\ IsContainer(v) => top.i > Len(v.items)
           /\ IF r.panic
              THEN Unwind(top.path) /\ UNCHANGED rets
              ELSE IF Len(stack) = 1
              THEN /\ pc' = "done"
                   /\ stack' = <<>>
                   /\ outcome' = r
                   /\ rets' = (top.path :> r.val) @@ rets
                   /\ UNCHANGED fault
              ELSE LET parent == stack[Len(stack) - 1]
                       acc == UAdd(parent.acc,
                                   Term(At(tree, parent.path).kind, parent.pre,
                                        r, overflowChecks),
                                   overflowChecks)
                   IN  IF acc.panic
                       THEN /\ Unwind(parent.path)
                            /\ rets' = (top.path :> r.val) @@ rets
                       ELSE /\ stack' = [SubSeq(stack, 1, Len(stack) - 1)
                                           EXCEPT ![Len(stack) - 1] =
                                             [parent EXCEPT !.i = @ + 1,
                                                            !.acc = acc]]
                            /\ rets' = (top.path :> r.val) @@ rets
                            /\ UNCHANGED <<pc, outcome, fault>>
    /\ UNCHANGED <<tree, arg, visits, maxActive, prev, overflowChecks, copy>>

-----------------------------------------------------------------------------
(* The caller, who owns the tree and changes it between calls *)

\* The tree becomes t while no call is active.  With track, the outcome
\* of the last finished call is remembered across the change.
GrowTo(t, track) ==
    /\ pc \in {"idle", "done"}
    /\ tree' = t
    /\ arg' = t
    /\ pc' = "idle"
    /\ stack' = <<>>
    /\ outcome' = Ok(U(0))
    /\ rets' = EmptyRets
    /\ visits' = <<>>
    /\ maxActive' = 0
    /\ prev' = IF ~track THEN NoPrev
               ELSE IF pc = "done"
               THEN [rel |-> "grown", out |-> outcome, copy |-> copy]
               ELSE prev
    /\ UNCHANGED <<fault, overflowChecks, copy>>

\* keys and items with the entry (k, x) put where the map's order has it.
InsertSorted(v, k, x) ==
    LET n == Cardinality({ i \in 1..Len(v.keys) :
                             KeyOrder(v.keys[i].name) < KeyOrder(k.name) })
    IN  [v EXCEPT
           !.keys = SubSeq(@, 1, n) \o <<k>> \o SubSeq(@, n + 1, Len(@)),
           !.items = SubSeq(@, 1, n) \o <<x>> \o SubSeq(@, n + 1, Len(@))]

\* An element is appended to an array of the tree.
Push(track) ==
    /\ pc \in {"idle", "done"}
    /\ \E p \in Paths(tree), x \in Singles :
        /\ At(tree, p).kind = "Array"
        /\ NodeCount(tree) < MaxNodes
        /\ GrowTo(Replace(tree, p, [At(tree, p) EXCEPT !.items = Append(@, x)]),
                  track)

\* A pair with a new key is added to an object of the tree.
Insert(track) ==
    /\ pc \in {"idle", "done"}
    /\ \E p \in Paths(tree), x \in Singles, name \in KeyNames, cap \in KeyCaps :
        /\ At(tree, p).kind = "Object"
        /\ NodeCount(tree) < MaxNodes
        /\ \A i \in 1..Len(At(tree, p).keys) : At(tree, p).keys[i].name # name
        /\ GrowTo(Replace(tree, p, InsertSorted(At(tree, p), MkKey(name, cap), x)),
                  track)

\* The buffer of a string value of the tree grows.
Reserve(track) ==
    /\ pc \in {"idle", "done"}
    /\ \E p \in Paths(tree), s \in StringShapes :
        /\ At(tree, p).kind = "String"
        /\ NatLeq(At(tree, p).cap, s.cap)
        /\ At(tree, p).cap # s.cap
        /\ GrowTo(Replace(tree, p, [At(tree, p) EXCEPT !.cap = s.cap]), track)

\* The buffer of a key of an object of the tree grows.
ReserveKey(track) ==
    /\ pc \in {"idle", "done"}
    /\ \E p \in Paths(tree), cap \in KeyCaps :
        /\ At(tree, p).kind = "Object"
        /\ \E i \in 1..Len(At(tree, p).keys) :
             /\ NatLeq(At(tree, p).keys[i].cap, cap)
             /\ At(tree, p).keys[i].cap # cap
             /\ GrowTo(Replace(tree, p,
                         [At(tree, p) EXCEPT !.keys[i].cap = cap]), track)

-----------------------------------------------------------------------------
(* Specifications *)

Step == Descend \/ Return

Next ==
    \/ CallSrc
    \/ Step
    \/ Push(FALSE)
    \/ Insert(FALSE)
    \/ Reserve(FALSE)
    \/ ReserveKey(FALSE)

Spec == Init /\ [][Next]_vars

\* The caller compares the estimate before and after growing the tree.
NextGrow ==
    \/ CallSrc
    \/ Step
    \/ Push(TRUE)
    \/ Insert(TRUE)
    \/ Reserve(TRUE)
    \/ ReserveKey(TRUE)

SpecGrow == Init /\ [][NextGrow]_vars

\* The caller runs either copy of sizeof_val.
NextCopies == Next \/ CallPackage

SpecCopies == Init /\ [][NextCopies]_vars

-----------------------------------------------------------------------------
(* Properties *)

\* The step-by-step execution ends as the function evaluates: a call that
\* returned returned sizeof_val of the tree, and a call panicked exactly
\* where the function panics.
ExecutionIsSizeofVal ==
    /\ pc = "done" => outcome = sizeof_val(tree, copy, overflowChecks)
    /\ pc = "panicked" => sizeof_val(tree, copy, overflowChecks) = Panic

IsLeafKind(v) == v.kind \in {"Null", "Bool", "Number"}

\* The call on the node at path p returned.
Returned(p) == p \in DOMAIN rets

\* The call on the node at path p panicked.
Faulted(p) == fault = <<p>>

\* C1: every call of sizeof_val on a Null, a Bool or a Number, at the root
\* or nested, returns exactly ENVELOPE and never panics.
C1_LeafIsEnvelope ==
    \A p \in Paths(tree) :
        IsLeafKind(At(tree, p)) =>
            /\ ~Faulted(p)
            /\ Returned(p) => rets[p] = U(ENVELOPE)

\* C1's case: the call on the Number 42 and the call on the Bool false
\* have returned the envelope.
C1_Witness ==
    /\ pc = "done"
    /\ tree.kind = "Array"
    /\ Len(tree.items) = 2
    /\ tree.items[1] = MkNumber(42)
    /\ tree.items[2] = MkBool(FALSE)
    /\ rets[<<1>>] = U(ENVELOPE)
    /\ rets[<<2>>] = U(ENVELOPE)

\* C2: every call of sizeof_val on a String returns exactly
\* ENVELOPE + STRING_OVERHEAD + capacity, as integers, the capacity being
\* at least the length, and never panics.
C2_StringIsCapacity ==
    \A p \in Paths(tree) :
        LET s == At(tree, p)
        IN  s.kind = "String" =>
                /\ NatLeq(U(s.len), s.cap)
                /\ ~Faulted(p)
                /\ Returned(p) =>
                     rets[p] = NatAdd(U(ENVELOPE + STRING_OVERHEAD), s.cap)

\* C2's case: a String whose capacity exceeds its length was sized as the
\* root.
C2_Witness ==
    /\ pc = "done"
    /\ tree.kind = "String"
    /\ tree.len = 3
    /\ tree.cap = BigCap
    /\ outcome = Ok(NatAdd(U(ENVELOPE + STRING_OVERHEAD), BigCap))

\* Exact sum, as an integer, of what the calls on the first n children of
\* the array at p returned.
RECURSIVE ElementSum(_, _)
ElementSum(p, n) ==
    IF n = 0 THEN U(0)
    ELSE NatAdd(ElementSum(p, n - 1), rets[p \o <<n>>])

\* Exact sum, as an integer, over the first n pairs of the object at p of
\* STRING_OVERHEAD + capacity(key) + sizeof_val(value) + MAP_ENTRY_OVERHEAD.
RECURSIVE PairSum(_, _)
PairSum(p, n) ==
    IF n = 0 THEN U(0)
    ELSE NatAdd(PairSum(p, n - 1),
                NatAdd(NatAdd(U(STRING_OVERHEAD + MAP_ENTRY_OVERHEAD),
                              At(tree, p).keys[n].cap),
                       rets[p \o <<n>>]))

\* C3: every call of sizeof_val on an Array returns ENVELOPE plus the sum
\* of what the calls on its elements returned (ENVELOPE for the empty
\* array).
C3_ArrayIsSum ==
    \A p \in Paths(tree) :
        LET a == At(tree, p)
        IN  a.kind = "Array" =>
                /\ ~Faulted(p)
                /\ Returned(p) =>
                     rets[p] = NatAdd(U(ENVELOPE), ElementSum(p, Len(a.items)))

\* C4: every call of sizeof_val on an Object returns ENVELOPE plus the sum
\* over its pairs of STRING_OVERHEAD + capacity(key) + sizeof_val(value) +
\* MAP_ENTRY_OVERHEAD (ENVELOPE for the empty object).
C4_ObjectIsSum ==
    \A p \in Paths(tree) :
        LET o == At(tree, p)
        IN  o.kind = "Object" =>
                /\ ~Faulted(p)
                /\ Returned(p) =>
                     rets[p] = NatAdd(U(ENVELOPE), PairSum(p, Len(o.items)))

\* C5: once a call has returned and the tree has then only grown (elements
\* appended, pairs added, capacities raised, at any depth), the next call
\* returns, and returns no less.
C5_Monotonic ==
    prev.rel = "grown" =>
        /\ pc # "panicked"
        /\ pc = "done" => NatLeq(prev.out.val, outcome.val)

\* C6: no call panics, and every call that has returned returned at least
\* ENVELOPE.
C6_TotalAtLeastEnvelope ==
    /\ pc # "panicked"
    /\ pc = "done" => NatLeq(U(ENVELOPE), outcome.val)

\* C7: a call leaves the tree as it found it, leaves nothing behind when it
\* ends, and a second call on the unchanged tree ends as the first did.
C7_Pure ==
    /\ pc \in {"running", "done", "panicked"} => tree = arg
    /\ pc # "running" => stack = <<>>
    /\ prev.rel = "same" =>
         /\ pc # "panicked"
         /\ pc = "done" => outcome = prev.out

\* C7's case: an object of two pairs was sized twice in a row.
C7_Witness ==
    /\ pc = "done"
    /\ prev.rel = "same"
    /\ tree.kind = "Object"
    /\ Len(tree.items) = 2
    /\ tree.items[2].kind = "String"
    /\ outcome = prev.out

\* The number of String values, of pairs, and the exact sum of the
\* capacities of all String values and keys of v.
RECURSIVE StringCount(_)
StringCount(v) ==
    LET RECURSIVE Below(_)
        Below(i) == IF i = 0 THEN 0 ELSE StringCount(v.items[i]) + Below(i - 1)
    IN  (IF v.kind = "String" THEN 1 ELSE 0) + Below(Len(v.items))

RECURSIVE PairCount(_)
PairCount(v) ==
    LET RECURSIVE Below(_)
        Below(i) == IF i = 0 THEN 0 ELSE PairCount(v.items[i]) + Below(i - 1)
    IN  Len(v.keys) + Below(Len(v.items))

RECURSIVE CapacitySum(_)
CapacitySum(v) ==
    LET RECURSIVE Keys(_)
        Keys(i) == IF i = 0 THEN U(0) ELSE NatAdd(Keys(i - 1), v.keys[i].cap)
        RECURSIVE Below(_)
        Below(i) == IF i = 0 THEN U(0)
                    ELSE NatAdd(Below(i - 1), CapacitySum(v.items[i]))
    IN  NatAdd(NatAdd(v.cap, Keys(Len(v.keys))), Below(Len(v.items)))

\* ENVELOPE * nodes + STRING_OVERHEAD * (strings + keys) +
\* MAP_ENTRY_OVERHEAD * pairs + capacities, as an integer.
ClosedForm(v) ==
    NatAdd(NatAdd(NatMul(NodeCount(v), U(ENVELOPE)),
                  NatMul(StringCount(v) + PairCount(v), U(STRING_OVERHEAD))),
           NatAdd(NatMul(PairCount(v), U(MAP_ENTRY_OVERHEAD)),
                  CapacitySum(v)))

\* C8: every call returns, and returns the closed form of its tree: one
\* envelope per node, one STRING_OVERHEAD per string value and per key, one
\* MAP_ENTRY_OVERHEAD per pair, and every capacity.
C8_ClosedForm ==
    /\ pc # "panicked"
    /\ pc = "done" => outcome.val = ClosedForm(tree)

\* C9: the traversal calls sizeof_val on no node twice, and when it ends
\* it has called it on every node, with as many calls active at once as
\* the tree is deep.
C9_VisitsEveryNodeOnce ==
    /\ \A i, j \in 1..Len(visits) : visits[i] = visits[j] => i = j
    /\ pc \in {"done", "panicked"} =>
         /\ { visits[i] : i \in 1..Len(visits) } = Paths(tree)
         /\ maxActive = Depth(tree)

\* C10: the copy of sizeof_val in src/src/lib.rs and the packaged copy
\* return the same for the same tree.
C10_CopiesAgree ==
    (pc = "done" /\ prev.rel = "same" /\ prev.copy # copy) =>
        outcome = prev.out

-----------------------------------------------------------------------------
(* What holds of the trees whose estimate fits a usize *)

\* No addition of the call on the tree overflows: the exact total, of
\* which every partial sum is a part, fits a usize.
NoOverflow == FitsUsize(ClosedForm(tree))

\* Under Spec: where nothing overflows, the sums of C3 and C4, the bound
\* of C6, the closed form of C8 and the traversal of C9 are as stated.
ExactWhereItFits ==
    NoOverflow =>
        /\ C3_ArrayIsSum
        /\ C4_ObjectIsSum
        /\ C6_TotalAtLeastEnvelope
        /\ C8_ClosedForm
        /\ C9_VisitsEveryNodeOnce

\* Under SpecGrow: where nothing overflows in the grown tree, the
\* estimate has not decreased.
MonotonicWhereItFits == NoOverflow => C5_Monotonic

=============================================================================
